---- MODULE Spec2Model ----
(***************************************************************************)
(* A model of the MIRAI integration test harness                           *)
(* (tests/integration_tests.rs): discovery of the test cases of a          *)
(* directory (run_directory), their parallel execution by a rayon          *)
(* fold/reduce, the crash boundary around one case (invoke_driver), and    *)
(* the matching of the produced diagnostics against the "//~ message"      *)
(* annotations of the fragment (ExpectedErrors, load_errors,               *)
(* parse_expected).                                                        *)
(*                                                                         *)
(* Strings are sequences of one-character strings.  The compiler front-end *)
(* (rustc_driver) is an external collaborator: it either panics or         *)
(* completes and hands its buffered diagnostics to the callback.           *)
(***************************************************************************)
EXTENDS Integers, Sequences, FiniteSets

\* ------------------------------------------------------------------ bounds
MaxEntries == 3     \* directory entries of the run-pass directory
NumWorkers == 2     \* fold accumulators (worker groups) of the rayon pool
MaxDiags == 2       \* top-level diagnostics the front-end produces for a case
MaxChildren == 1    \* children of one diagnostic
MaxLines == 2       \* lines of a fragment file
MaxExpected == 3    \* marker lines of a fragment whose matching is followed
MaxMatchChildren == 2  \* children of a diagnostic whose matching is followed
MaxLineLen == 6     \* characters of a line given to parse_expected

\* ----------------------------------------------------------------- strings
Str(n, S) == UNION {[1..k -> S] : k \in 0..n}

\* line 174: let tag = "//~";
tag == <<"/", "/", "~">>

\* str::trim strips leading and trailing white space
\* A character is a one-character string; one that cannot be written in a
\* string is named by its code point.  White_Space are the characters
\* char::is_whitespace holds for: U+0009 to U+000D, the blank, and the rest
\* of the Unicode property White_Space
White_Space ==
    {"\t", "\n", "U+000B", "\f", "\r", " ", "U+0085", "U+00A0", "U+1680",
     "U+2000", "U+2001", "U+2002", "U+2003", "U+2004", "U+2005", "U+2006",
     "U+2007", "U+2008", "U+2009", "U+200A", "U+2028", "U+2029", "U+202F",
     "U+205F", "U+3000"}
IsWhitespace(ch) == ch \in White_Space

RECURSIVE TrimStart(_)
TrimStart(s) ==
    IF s # <<>> /\ IsWhitespace(Head(s)) THEN TrimStart(Tail(s)) ELSE s

RECURSIVE TrimEnd(_)
TrimEnd(s) ==
    IF s # <<>> /\ IsWhitespace(s[Len(s)])
    THEN TrimEnd(SubSeq(s, 1, Len(s) - 1))
    ELSE s

\* trim that strips the leading white space only
TrimLeading(s) == TrimStart(s)
Trim(s) == TrimEnd(TrimStart(s))

\* str::find: the positions (1-based) at which pat occurs in s
Occurrences(s, pat) ==
    {i \in 1..(Len(s) - Len(pat) + 1) : SubSeq(s, i, i + Len(pat) - 1) = pat}

Min(S) == CHOOSE x \in S : \A y \in S : x <= y

\* Option<T>: None is <<>>, Some(x) is <<x>>
None == <<>>
Some(x) == <<x>>

\* fn parse_expected(line, tag) -> Option<String>
parse_expected(line, t) ==
    IF Occurrences(line, t) = {}
    THEN None
    ELSE LET start == Min(Occurrences(line, t)) + Len(t)
         IN  Some(Trim(SubSeq(line, start, Len(line))))

\* fn load_errors(testfile) -> Vec<String>, for a file that opened: the
\* filter_map of parse_expected over the lines, collected in file order
RECURSIVE CollectLines(_)
CollectLines(lines) ==
    IF lines = <<>> THEN <<>>
    ELSE parse_expected(Head(lines), tag) \o CollectLines(Tail(lines))

\* A file of the test directory when it is opened: gone, or its lines and
\* whether the reader, after these lines, yields an error (bytes that are
\* not UTF-8, an I/O error, a directory) instead of the end of the file
MissingFile == [exists |-> FALSE, lines |-> <<>>, fails |-> FALSE]
FileOf(lines) == [exists |-> TRUE, lines |-> lines, fails |-> FALSE]
UnreadableFile(lines) == [exists |-> TRUE, lines |-> lines, fails |-> TRUE]
\* the files a fragment path may name when it is opened: one that holds any
\* of the line sequences F and is read to its end (or is gone by then), and
\* also one whose reading fails
TextFilesOf(F) == {FileOf(ls) : ls \in F} \cup {MissingFile}
FilesOf(F) == TextFilesOf(F) \cup {UnreadableFile(ls) : ls \in F}

\* load_errors with a missing file read as an empty one
load_errors_or_empty(file) ==
    [panic |-> FALSE, messages |-> CollectLines(file.lines)]

\* File::open(testfile).unwrap(): a missing file panics; line.unwrap(): a
\* line the reader cannot yield panics, and nothing is collected
load_errors(file) ==
    IF ~file.exists \/ file.fails
    THEN [panic |-> TRUE, messages |-> <<>>]
    ELSE [panic |-> FALSE, messages |-> CollectLines(file.lines)]

\* ------------------------------------------------------------ expectations
\* Vec::remove_item: removes the first element equal to item, if any
LastIndex(v, item) ==
    CHOOSE i \in 1..Len(v) :
        v[i] = item /\ \A j \in 1..Len(v) : v[j] = item => j <= i
FirstIndex(v, item) == Min({i \in 1..Len(v) : v[i] = item})

\* remove_item as the comment on remove_message words it: the first element
\* is removed when it is the item
remove_front(v, item) ==
    IF v # <<>> /\ Head(v) = item
    THEN [found |-> TRUE, vec |-> Tail(v)]
    ELSE [found |-> FALSE, vec |-> v]

\* remove_item removing every element equal to item
remove_all(v, item) ==
    [found |-> \E i \in 1..Len(v) : v[i] = item,
     vec |-> SelectSeq(v, LAMBDA x : x # item)]

remove_item(v, item) ==
    IF \E i \in 1..Len(v) : v[i] = item
    THEN LET i == FirstIndex(v, item)
         IN  [found |-> TRUE,
              vec |-> SubSeq(v, 1, i - 1) \o SubSeq(v, i + 1, Len(v))]
    ELSE [found |-> FALSE, vec |-> v]

\* remove_message without the panic
remove_message_lenient(messages, msg) ==
    [panic |-> FALSE, messages |-> remove_item(messages, msg).vec]

\* fn remove_message(&mut self, msg): panics when msg is not in self.messages
remove_message(messages, msg) ==
    LET r == remove_item(messages, msg)
    IN  [panic |-> ~r.found, messages |-> r.vec]

\* The remove_message calls check_messages issues, in order: for each
\* diagnostic its own message, then its children's messages
RECURSIVE ChildMessages(_)
ChildMessages(children) ==
    IF children = <<>> THEN <<>>
    ELSE <<Head(children).message>> \o ChildMessages(Tail(children))

\* Flatten without the inner loop over the children
FlattenTopLevel(diagnostics) ==
    [i \in 1..Len(diagnostics) |-> diagnostics[i].message]

RECURSIVE Flatten(_)
Flatten(diagnostics) ==
    IF diagnostics = <<>> THEN <<>>
    ELSE <<Head(diagnostics).message>>
         \o ChildMessages(Head(diagnostics).children)
         \o Flatten(Tail(diagnostics))

\* The for_each of check_messages over the calls still to make: the first
\* panic stops it.  calls are the messages remove_message was called with.
RECURSIVE RemoveEach(_, _, _)
RemoveEach(messages, todo_msgs, calls) ==
    IF todo_msgs = <<>>
    THEN [panic |-> "none", messages |-> messages, calls |-> calls]
    ELSE LET r == remove_message(messages, Head(todo_msgs))
         IN  IF r.panic
             THEN [panic |-> "unexpected", messages |-> r.messages,
                   calls |-> Append(calls, Head(todo_msgs))]
             ELSE RemoveEach(r.messages, Tail(todo_msgs),
                             Append(calls, Head(todo_msgs)))

\* line 157: self.messages.len() > 0
LeftOverTwo(messages) == Len(messages) > 1
LeftOver(messages) == Len(messages) > 0

\* check_messages without the final check of self.messages.len()
check_messages_no_leftover(messages, diagnostics) ==
    RemoveEach(messages, Flatten(diagnostics), <<>>)

\* pub fn check_messages(&mut self, diagnostics)
check_messages(messages, diagnostics) ==
    LET r == RemoveEach(messages, Flatten(diagnostics), <<>>)
    IN  IF r.panic = "none" /\ LeftOver(r.messages)
        THEN [r EXCEPT !.panic = "missing"]
        ELSE r


\* ------------------------------------------------------------ the harness
VARIABLES
    phase,                \* "discover", "run", "reduce", "done" or "aborted"
    dir_readable,         \* whether fs::read_dir succeeds
    dir_entries,          \* the kinds of the directory's entries; entry i is named i
    next_entry,           \* 0 before read_dir, then the entry the loop is at
    temp_counter,         \* temporary directories created so far (TempDir::new)
    files_and_temp_dirs,  \* the (file path, output directory) pairs pushed
    setup_failed,         \* an expect() of the discovery loop has failed
    todo,                 \* cases no fold closure has taken yet
    cur,                  \* per worker: the case its fold closure is running, or 0
    acc,                  \* per worker: its fold accumulator
    live,                 \* workers whose partial sum is not yet reduced away
    count,                \* what run_directory returned: None or Some(n)
    pc,                   \* per case: where its invoke_driver call is
    args,                 \* per case: the (file_name, temp_dir_path) it was called with
    diagnostics,          \* per case: the buffered diagnostics handed to the callback
    fragment,             \* per case: the fragment file as load_errors found it
    expected,             \* per case: ExpectedErrors.messages after the callback
    panic,                \* per case: the panic of the closure, "none" if none
    result,               \* per case: what catch_unwind returned
    ret,                  \* per case: what invoke_driver returns
    outcome,              \* per case: the value the fold added, None or Some(v)
    invoked,              \* per case: the number of invoke_driver calls
    stdout,               \* per case: the number of "<path> failed" lines printed
    happened,             \* per case: how its invocation went (history)
    calls,                \* per case: the remove_message calls made so far (history)
    line_num,             \* per case: the lines load_errors has taken from the reader
    parsed,               \* per case: what parse_expected returned for the last line
    suite                 \* the test run_pass: "running", "passed" or "failed"

vars == <<phase, dir_readable, dir_entries, next_entry, temp_counter,
          files_and_temp_dirs, setup_failed, todo, cur, acc, live, count,
          pc, args, diagnostics, fragment, expected, panic, result, ret,
          outcome, invoked, stdout, happened, calls, line_num, parsed, suite>>

aux_vars == <<calls, line_num, parsed, suite>>
discovery_vars == <<dir_readable, dir_entries, temp_counter,
                    files_and_temp_dirs, setup_failed>>
case_vars == <<pc, args, diagnostics, fragment, expected, panic, result,
               ret, outcome, invoked, stdout, happened>>
pool_vars == <<todo, cur, acc, live, count>>

Cases == 1..MaxEntries
Workers == 1..NumWorkers
NumCases == Len(files_and_temp_dirs)

\* ----------------------------------------------------------------- inputs
MsgA == <<"a">>
MsgB == <<"b">>
Msgs == {MsgA, MsgB}

\* a marker line "//~ m" and a line without the marker
MarkerLine(m) == tag \o <<" ">> \o m
PlainLine == <<"/", "/", " ", "a">>
Lines == {MarkerLine(m) : m \in Msgs} \cup {PlainLine}
Fragments == Str(MaxLines, Lines)

Diag(m, ch) == [message |-> m, children |-> ch]
SubDiags == {[message |-> m] : m \in Msgs}
Diags == {Diag(m, ch) : m \in Msgs, ch \in Str(MaxChildren, SubDiags)}
DiagLists == Str(MaxDiags, Diags)

\* The fragments and diagnostics of scenarios A to D: no marker line or one
\* marker line "//~ a", and no diagnostic or the one diagnostic "a"
ScenarioFragments == {<<PlainLine>>, <<PlainLine, MarkerLine(MsgA)>>}
ScenarioDiagLists == {<<>>, <<Diag(MsgA, <<>>)>>}

\* ------------------------------------------------------------------- Init
NoCase == 0
Idle == [w \in Workers |-> NoCase]
Fresh(v) == [c \in Cases |-> v]

\* line 73: the fold's identity, || 0
FoldIdentity == 0
\* line 78: the reduce's identity, || 0
ReduceIdentity == 0

InitCases ==
    /\ pc = Fresh("pending")
    /\ args = Fresh(None)
    /\ diagnostics = Fresh(<<>>)
    /\ fragment = Fresh(None)
    /\ expected = Fresh(<<>>)
    /\ panic = Fresh("none")
    /\ result = Fresh("none")
    /\ ret = Fresh(None)
    /\ outcome = Fresh(None)
    /\ invoked = Fresh(0)
    /\ stdout = Fresh(0)
    /\ happened = Fresh("nothing")
    /\ calls = Fresh(<<>>)
    /\ line_num = Fresh(0)
    /\ parsed = Fresh(None)
    /\ suite = "running"

InitPool ==
    /\ todo = {}
    /\ cur = Idle
    /\ acc = [w \in Workers |-> FoldIdentity]
    /\ live = Workers
    /\ count = None

\* run_directory is entered: nothing is discovered yet
Init ==
    /\ phase = "discover"
    /\ dir_readable \in BOOLEAN
    /\ dir_entries \in Str(MaxEntries, {"file", "dir"})
    /\ next_entry = 0
    /\ temp_counter = 0
    /\ files_and_temp_dirs = <<>>
    /\ setup_failed = FALSE
    /\ InitPool
    /\ InitCases

\* -------------------------------------------------------------- discovery
\* .expect(..) and .unwrap() of run_directory: a failure panics out of
\* run_directory, outside every catch_unwind
expect_continue(ph) == ph
expect(ph) == "aborted"

\* line 59: entry.path()
FilePath(name) == <<"tests/run-pass", name>>
\* lines 61-63: the fresh temporary directory joined with the file name
OutputDirFixed(temp, name) == <<0, 0>>
OutputDir(temp, name) == <<temp, name>>

\* line 54: fs::read_dir(directory_path).expect(..)
ReadDir ==
    /\ phase = "discover" /\ next_entry = 0
    /\ IF dir_readable
       THEN /\ next_entry' = 1
            /\ UNCHANGED <<phase, setup_failed>>
       ELSE /\ phase' = expect(phase)
            /\ setup_failed' = TRUE
            /\ UNCHANGED next_entry
    /\ UNCHANGED <<dir_readable, dir_entries, temp_counter, files_and_temp_dirs>>
    /\ UNCHANGED <<pool_vars, case_vars>>
    /\ UNCHANGED aux_vars

\* line 56: entry.file_type().unwrap().is_file()
is_file_or_dir(kind) == TRUE
is_file(kind) == kind = "file"

AtEntry ==
    /\ phase = "discover"
    /\ next_entry \in 1..Len(dir_entries)

\* lines 56-58: an entry that is not a file is skipped
SkipEntry ==
    /\ AtEntry
    /\ ~is_file(dir_entries[next_entry])
    /\ next_entry' = next_entry + 1
    /\ UNCHANGED <<phase, discovery_vars, pool_vars, case_vars>>
    /\ UNCHANGED aux_vars

\* Leaving an expect() that failed: the loop goes on only if it did not panic
AfterFailure ==
    /\ phase' = expect(phase)
    /\ setup_failed' = TRUE
    /\ next_entry' = IF phase' = "aborted" THEN next_entry ELSE next_entry + 1
    /\ UNCHANGED <<dir_readable, dir_entries, files_and_temp_dirs>>
    /\ UNCHANGED <<pool_vars, case_vars>>
    /\ UNCHANGED aux_vars

\* line 61: TempDir::new("miraiTest").expect(..) fails
TempDirFails ==
    /\ AtEntry
    /\ is_file(dir_entries[next_entry])
    /\ UNCHANGED temp_counter
    /\ AfterFailure

\* line 64: fs::create_dir(..).expect(..) fails, the temporary directory exists
CreateDirFails ==
    /\ AtEntry
    /\ is_file(dir_entries[next_entry])
    /\ temp_counter' = temp_counter + 1
    /\ AfterFailure

\* lines 59-68: the case is pushed
PushCase ==
    /\ AtEntry
    /\ is_file(dir_entries[next_entry])
    /\ temp_counter' = temp_counter + 1
    /\ files_and_temp_dirs' =
           Append(files_and_temp_dirs,
                  <<FilePath(next_entry), OutputDir(temp_counter + 1, next_entry)>>)
    /\ next_entry' = next_entry + 1
    /\ UNCHANGED <<phase, dir_readable, dir_entries, setup_failed>>
    /\ UNCHANGED <<pool_vars, case_vars>>
    /\ UNCHANGED aux_vars

\* line 70: the loop is over, into_par_iter() takes the vector
StartRun ==
    /\ phase = "discover"
    /\ next_entry = Len(dir_entries) + 1
    /\ phase' = "run"
    /\ todo' = 1..NumCases
    /\ UNCHANGED <<next_entry, discovery_vars, cur, acc, live, count, case_vars>>
    /\ UNCHANGED aux_vars

\* ------------------------------------------------------------ invoke_driver
\* lines 85 and 125: std::panic::catch_unwind turns a panic of the closure
\* into Err and lets nothing unwind further
no_catch_unwind(panicked) ==
    [result |-> "Ok", unwinds |-> panicked]

catch_unwind(panicked) ==
    [result |-> IF panicked THEN "Err" ELSE "Ok", unwinds |-> FALSE]

\* lines 127-133: match result { Ok(_) => 0, Err(_) => { println!(..); 1 } }
ReturnValue(res) == IF res = "Ok" THEN 0 ELSE 1
PrintsAlways(res) == TRUE
PrintsFailed(res) == res = "Err"

\* lines 74-76: the fold closure, acc + invoke_driver(..)
FoldOp(a, code) == a + code
\* line 78: the reduce closure, acc + code
ReduceOpDropsAcc(a, code) == code
ReduceOp(a, code) == a + code

Running(w, at) ==
    /\ phase = "run"
    /\ cur[w] # NoCase
    /\ pc[cur[w]] = at

\* line 71: the parallel iterator consumes the vector, a case it has handed
\* to a fold closure is not handed out again
TakenStays(cases, c) == cases
Taken(cases, c) == cases \ {c}

\* line 75: a fold closure is called with the next case and calls invoke_driver
TakeCase(w, c) ==
    /\ phase = "run"
    /\ cur[w] = NoCase
    /\ c \in todo
    /\ todo' = Taken(todo, c)
    /\ cur' = [cur EXCEPT ![w] = c]
    /\ pc' = [pc EXCEPT ![c] = "frontend"]
    /\ args' = [args EXCEPT ![c] = Some(files_and_temp_dirs[c])]
    /\ invoked' = [invoked EXCEPT ![c] = @ + 1]
    /\ UNCHANGED <<phase, next_entry, discovery_vars, acc, live, count>>
    /\ UNCHANGED <<diagnostics, fragment, expected, panic, result, ret,
                   outcome, stdout, happened>>
    /\ UNCHANGED aux_vars

\* lines 85 and 125-133: the closure given to catch_unwind has ended,
\* panicking or not; invoke_driver matches on the result, prints the failure
\* and returns
Returns(c, panicked) ==
    LET r == catch_unwind(panicked)
    IN  /\ result' = [result EXCEPT ![c] = r.result]
        /\ phase' = IF r.unwinds THEN "aborted" ELSE phase
        /\ ret' = [ret EXCEPT ![c] =
                      IF r.unwinds THEN None ELSE Some(ReturnValue(r.result))]
        /\ stdout' = [stdout EXCEPT ![c] =
                         IF ~r.unwinds /\ PrintsFailed(r.result) THEN @ + 1 ELSE @]
        /\ pc' = [pc EXCEPT ![c] = "returned"]

\* lines 86-124: the front-end panics before it hands over any diagnostics
FrontEndPanic(w) ==
    /\ Running(w, "frontend")
    /\ Returns(cur[w], TRUE)
    /\ panic' = [panic EXCEPT ![cur[w]] = "front-end"]
    /\ happened' = [happened EXCEPT ![cur[w]] = "crash"]
    /\ UNCHANGED <<next_entry, discovery_vars, pool_vars>>
    /\ UNCHANGED <<args, diagnostics, fragment, expected, outcome, invoked>>
    /\ UNCHANGED aux_vars

\* lines 112-123: the front-end completes; every diagnostic was cancelled and
\* buffered, and the buffer is what the callback will get
FrontEndComplete(w, D) ==
    /\ Running(w, "frontend")
    /\ \E d \in D :
           diagnostics' = [diagnostics EXCEPT ![cur[w]] = d]
    /\ pc' = [pc EXCEPT ![cur[w]] = "callback"]
    /\ UNCHANGED <<phase, next_entry, discovery_vars, pool_vars>>
    /\ UNCHANGED <<args, fragment, expected, panic, result, ret, outcome,
                   invoked, stdout, happened>>
    /\ UNCHANGED aux_vars

\* lines 108-111 under line 85: the callback builds ExpectedErrors from the
\* fragment (F: the files it may find, or not find) and checks the
\* buffered diagnostics; a panic of either is caught by catch_unwind
Callback(w, F) ==
    /\ Running(w, "callback")
    /\ \E f \in F :
         LET c == cur[w]
             l == load_errors(f)
             m == check_messages(l.messages, diagnostics[c])
         IN  /\ fragment' = [fragment EXCEPT ![c] = Some(f)]
             /\ expected' = [expected EXCEPT ![c] =
                                IF l.panic THEN <<>> ELSE m.messages]
             /\ panic' = [panic EXCEPT ![c] =
                             IF ~f.exists THEN "no file"
                             ELSE IF l.panic THEN "unreadable"
                             ELSE m.panic]
             /\ happened' = [happened EXCEPT ![c] =
                                IF ~f.exists THEN "no file"
                                ELSE IF f.fails THEN "unreadable"
                                ELSE IF m.panic = "none" THEN "matched"
                                ELSE "unmatched"]
             /\ Returns(c, l.panic \/ m.panic # "none")
    /\ UNCHANGED <<next_entry, discovery_vars, pool_vars>>
    /\ UNCHANGED <<args, diagnostics, outcome, invoked>>
    /\ UNCHANGED aux_vars

\* lines 74-76: invoke_driver has returned and the fold closure adds its value;
\* the call's locals are gone
FoldAdd(w) ==
    /\ Running(w, "returned")
    /\ LET c == cur[w]
       IN  /\ acc' = [acc EXCEPT ![w] = FoldOp(@, ret[c][1])]
           /\ outcome' = [outcome EXCEPT ![c] = ret[c]]
           /\ pc' = [pc EXCEPT ![c] = "done"]
           /\ diagnostics' = [diagnostics EXCEPT ![c] = <<>>]
           /\ fragment' = [fragment EXCEPT ![c] = None]
           /\ expected' = [expected EXCEPT ![c] = <<>>]
           /\ panic' = [panic EXCEPT ![c] = "none"]
           /\ result' = [result EXCEPT ![c] = "none"]
           /\ ret' = [ret EXCEPT ![c] = None]
    /\ cur' = [cur EXCEPT ![w] = NoCase]
    /\ UNCHANGED <<phase, next_entry, discovery_vars, todo, live, count>>
    /\ UNCHANGED <<args, invoked, stdout, happened>>
    /\ UNCHANGED aux_vars

\* lines 72-78: the fold is over when every case was taken and every call of
\* invoke_driver has returned; nothing ends a call from outside
FoldOverOrGivenUp ==
    /\ todo = {}
    /\ \A w \in Workers :
           IF cur[w] = NoCase THEN TRUE ELSE pc[cur[w]] = "hung"
FoldOver ==
    /\ todo = {}
    /\ cur = Idle

\* lines 72-78: every case is folded, the partial sums go to the reduce
EndFold ==
    /\ phase = "run"
    /\ FoldOver
    /\ phase' = "reduce"
    /\ UNCHANGED <<next_entry, discovery_vars, pool_vars, case_vars>>
    /\ UNCHANGED aux_vars

\* line 78: the reduce closure combines two partial sums
ReduceStep(w1, w2) ==
    /\ phase = "reduce"
    /\ w1 \in live /\ w2 \in live /\ w1 # w2
    /\ acc' = [acc EXCEPT ![w1] = ReduceOp(acc[w1], acc[w2])]
    /\ live' = live \ {w2}
    /\ UNCHANGED <<phase, next_entry, discovery_vars, todo, cur, count, case_vars>>
    /\ UNCHANGED aux_vars

\* lines 78-79: the reduced sum is what run_directory returns
Return ==
    /\ phase = "reduce"
    /\ \E w \in live :
          /\ live = {w}
          /\ count' = Some(ReduceOp(ReduceIdentity, acc[w]))
    /\ phase' = "done"
    /\ UNCHANGED <<next_entry, discovery_vars, todo, cur, acc, live, case_vars>>
    /\ UNCHANGED aux_vars

\* ---------------------------------------------------------------- run_pass
\* line 45: assert_eq!(run_directory(run_pass_path), 0)
assert_ge(left, right) == left >= right
assert_eq(left, right) == left = right

\* lines 43-46: run_directory has returned and the assertion decides the test
RunPass ==
    /\ phase = "done"
    /\ suite = "running"
    /\ suite' = IF assert_eq(count[1], 0) THEN "passed" ELSE "failed"
    /\ UNCHANGED <<phase, next_entry, discovery_vars, pool_vars, case_vars>>
    /\ UNCHANGED <<calls, line_num, parsed>>

\* lines 43-46: a panic of run_directory unwinds through run_pass
RunPassUnwinds ==
    /\ phase = "aborted"
    /\ suite = "running"
    /\ suite' = "failed"
    /\ UNCHANGED <<phase, next_entry, discovery_vars, pool_vars, case_vars>>
    /\ UNCHANGED <<calls, line_num, parsed>>

\* --------------------------------------------------------- specifications
\* A run of run_directory over a directory, with the scenarios' fragments
\* and diagnostics
Next ==
    \/ ReadDir
    \/ SkipEntry
    \/ TempDirFails
    \/ CreateDirFails
    \/ PushCase
    \/ StartRun
    \/ \E w \in Workers, c \in Cases : TakeCase(w, c)
    \/ \E w \in Workers : FrontEndPanic(w)
    \/ \E w \in Workers : FrontEndComplete(w, ScenarioDiagLists)
    \/ \E w \in Workers : Callback(w, TextFilesOf(ScenarioFragments))
    \/ \E w \in Workers : FoldAdd(w)
    \/ EndFold
    \/ \E w1 \in Workers, w2 \in Workers : ReduceStep(w1, w2)
    \/ Return
    \/ RunPass
    \/ RunPassUnwinds

Spec == Init /\ [][Next]_vars

\* One case, discovered in a directory of one file and taken by the first
\* fold closure, with every fragment and every list of diagnostics within
\* the bounds
InitCase ==
    /\ phase = "run"
    /\ dir_readable = TRUE
    /\ dir_entries = <<"file">>
    /\ next_entry = 2
    /\ temp_counter = 1
    /\ files_and_temp_dirs = <<<<FilePath(1), OutputDir(1, 1)>>>>
    /\ setup_failed = FALSE
    /\ todo = {}
    /\ cur = [Idle EXCEPT ![1] = 1]
    /\ acc = [w \in Workers |-> FoldIdentity]
    /\ live = Workers
    /\ count = None
    /\ pc = [Fresh("pending") EXCEPT ![1] = "frontend"]
    /\ args = [Fresh(None) EXCEPT ![1] = Some(files_and_temp_dirs[1])]
    /\ diagnostics = Fresh(<<>>)
    /\ fragment = Fresh(None)
    /\ expected = Fresh(<<>>)
    /\ panic = Fresh("none")
    /\ result = Fresh("none")
    /\ ret = Fresh(None)
    /\ outcome = Fresh(None)
    /\ invoked = [Fresh(0) EXCEPT ![1] = 1]
    /\ stdout = Fresh(0)
    /\ happened = Fresh("nothing")
    /\ calls = Fresh(<<>>)
    /\ line_num = Fresh(0)
    /\ parsed = Fresh(None)
    /\ suite = "running"

NextCase ==
    \/ \E w \in Workers : FrontEndPanic(w)
    \/ \E w \in Workers : FrontEndComplete(w, DiagLists)
    \/ \E w \in Workers : Callback(w, FilesOf(Fragments))
    \/ \E w \in Workers : FoldAdd(w)
    \/ EndFold
    \/ \E w1 \in Workers, w2 \in Workers : ReduceStep(w1, w2)
    \/ Return

SpecCase == InitCase /\ [][NextCase]_vars

\* ------------------------------------------- check_messages, call by call
\* The inputs of the matching: fragments of marker lines only, diagnostics
\* with up to MaxMatchChildren children whose messages are "b", "a", "b"
\* and so on, so that a child and the next one differ
MatchFragments == Str(MaxExpected, {MarkerLine(m) : m \in Msgs})
RECURSIVE Alternating(_, _, _)
Alternating(first, other, n) ==
    IF n = 0 THEN <<>>
    ELSE <<[message |-> first]>> \o Alternating(other, first, n - 1)
MatchChildren == {Alternating(MsgB, MsgA, n) : n \in 0..MaxMatchChildren}
MatchDiags == {Diag(m, ch) : m \in Msgs, ch \in MatchChildren}
MatchDiagLists == Str(MaxDiags, MatchDiags)
OtherFragments == {<<MarkerLine(MsgA)>>}
OtherDiagLists == {<<Diag(MsgA, <<>>)>>}

\* lines 151-156: the position of the two nested for_each loops is a pair
\* <<i, j>>: diagnostic i, and its own message (j = 0) or its j-th child
FirstPos == <<1, 0>>
NextPosSkipsChildren(ds, pos) == <<pos[1] + 1, 0>>
\* the children taken from the last to the first
NextPosChildrenReversed(ds, pos) ==
    LET n == Len(ds[pos[1]].children)
    IN  IF pos[2] = 0 /\ n > 0 THEN <<pos[1], n>>
        ELSE IF pos[2] > 1 THEN <<pos[1], pos[2] - 1>>
        ELSE <<pos[1] + 1, 0>>
NextPos(ds, pos) ==
    IF pos[2] < Len(ds[pos[1]].children)
    THEN <<pos[1], pos[2] + 1>>
    ELSE <<pos[1] + 1, 0>>

\* lines 152 and 154: diag.message() or child.message()
MessageAt(ds, pos) ==
    IF pos[2] = 0 THEN ds[pos[1]].message
    ELSE ds[pos[1]].children[pos[2]].message

\* the position of the next remove_message call of case c
At(c) ==
    IF calls[c] = <<>> THEN FirstPos
    ELSE NextPos(diagnostics[c], calls[c][Len(calls[c])].pos)

\* line 109: ExpectedErrors::new(&f_name) loads the fragment's expectations;
\* the unwrap of File::open panics when the file is missing, the unwrap of a
\* line when the reader fails
NewExpectedErrors(w, F) ==
    /\ Running(w, "callback")
    /\ \E f \in F :
         LET c == cur[w]
             l == load_errors(f)
             why == IF ~f.exists THEN "no file" ELSE "unreadable"
         IN  /\ fragment' = [fragment EXCEPT ![c] = Some(f)]
             /\ IF l.panic
                THEN /\ panic' = [panic EXCEPT ![c] = why]
                     /\ happened' = [happened EXCEPT ![c] = why]
                     /\ Returns(c, TRUE)
                     /\ UNCHANGED expected
                ELSE /\ expected' = [expected EXCEPT ![c] = l.messages]
                     /\ pc' = [pc EXCEPT ![c] = "matching"]
                     /\ UNCHANGED <<phase, panic, happened, result, ret, stdout>>
    /\ UNCHANGED <<next_entry, discovery_vars, pool_vars>>
    /\ UNCHANGED <<args, diagnostics, outcome, invoked>>
    /\ UNCHANGED aux_vars

\* lines 152 and 154: one call of remove_message, for the message the loops
\* are at; its panic ends the callback
RemoveMessage(w) ==
    /\ Running(w, "matching")
    /\ At(cur[w])[1] <= Len(diagnostics[cur[w]])
    /\ LET c == cur[w]
           msg == MessageAt(diagnostics[c], At(c))
           r == remove_message(expected[c], msg)
       IN  /\ calls' = [calls EXCEPT ![c] =
                           Append(@, [pos |-> At(c), msg |-> msg,
                                      found |-> ~r.panic])]
           /\ expected' = [expected EXCEPT ![c] = r.messages]
           /\ IF r.panic
              THEN /\ panic' = [panic EXCEPT ![c] = "unexpected"]
                   /\ happened' = [happened EXCEPT ![c] = "unmatched"]
                   /\ Returns(c, TRUE)
              ELSE UNCHANGED <<phase, pc, panic, happened, result, ret, stdout>>
    /\ UNCHANGED <<next_entry, discovery_vars, pool_vars>>
    /\ UNCHANGED <<args, diagnostics, fragment, outcome, invoked>>
    /\ UNCHANGED <<line_num, parsed, suite>>

\* lines 157-159: both loops are over; expectations left over are a panic
AssertExhausted(w) ==
    /\ Running(w, "matching")
    /\ At(cur[w])[1] > Len(diagnostics[cur[w]])
    /\ LET c == cur[w]
       IN  /\ panic' = [panic EXCEPT ![c] =
                           IF LeftOver(expected[c]) THEN "missing" ELSE "none"]
           /\ happened' = [happened EXCEPT ![c] =
                              IF LeftOver(expected[c]) THEN "unmatched"
                              ELSE "matched"]
           /\ Returns(c, LeftOver(expected[c]))
    /\ UNCHANGED <<next_entry, discovery_vars, pool_vars>>
    /\ UNCHANGED <<args, diagnostics, fragment, expected, outcome, invoked>>
    /\ UNCHANGED aux_vars

\* Two cases, discovered in a directory of two files, each taken by a fold
\* closure of its own and each at its callback: the first with any list of
\* diagnostics within the bounds, the second with the one diagnostic "a"
InitMatch ==
    /\ phase = "run"
    /\ dir_readable = TRUE
    /\ dir_entries = <<"file", "file">>
    /\ next_entry = 3
    /\ temp_counter = 2
    /\ files_and_temp_dirs = <<<<FilePath(1), OutputDir(1, 1)>>,
                               <<FilePath(2), OutputDir(2, 2)>>>>
    /\ setup_failed = FALSE
    /\ todo = {}
    /\ cur = [w \in Workers |-> IF w <= 2 THEN w ELSE NoCase]
    /\ acc = [w \in Workers |-> FoldIdentity]
    /\ live = Workers
    /\ count = None
    /\ pc = [c \in Cases |-> IF c <= 2 THEN "callback" ELSE "pending"]
    /\ args = [c \in Cases |->
                  IF c <= 2 THEN Some(files_and_temp_dirs[c]) ELSE None]
    /\ \E d1 \in MatchDiagLists, d2 \in OtherDiagLists :
           diagnostics = [Fresh(<<>>) EXCEPT ![1] = d1, ![2] = d2]
    /\ fragment = Fresh(None)
    /\ expected = Fresh(<<>>)
    /\ panic = Fresh("none")
    /\ result = Fresh("none")
    /\ ret = Fresh(None)
    /\ outcome = Fresh(None)
    /\ invoked = [c \in Cases |-> IF c <= 2 THEN 1 ELSE 0]
    /\ stdout = Fresh(0)
    /\ happened = Fresh("nothing")
    /\ calls = Fresh(<<>>)
    /\ line_num = Fresh(0)
    /\ parsed = Fresh(None)
    /\ suite = "running"

\* the fragment of the first case is any one within the bounds
FragmentsOf(w) == IF cur[w] = 1 THEN MatchFragments ELSE OtherFragments

NextMatch ==
    \/ \E w \in Workers : NewExpectedErrors(w, FilesOf(FragmentsOf(w)))
    \/ \E w \in Workers : RemoveMessage(w)
    \/ \E w \in Workers : AssertExhausted(w)
    \/ \E w \in Workers : FoldAdd(w)

SpecMatch == InitMatch /\ [][NextMatch]_vars

\* ---------------------------------------------- load_errors, line by line
\* The lines given to parse_expected: every line of up to MaxLineLen
\* characters of the marker, a blank, a tab and a letter
Alphabet == {"/", "~", " ", "\t", "a"}
ParseLines == Str(MaxLineLen, Alphabet)

\* Fragments of several lines: without the marker, with it, with it and no
\* text after it, with it twice, and with white space other than blanks
EmptyMarkerLine == <<" ">> \o tag \o <<" ">>
DoubleMarkerLine == MarkerLine(MsgA) \o <<" ">> \o MarkerLine(MsgB)
WhiteSpaceLine == tag \o <<"U+3000">> \o MsgB \o <<"U+00A0", "\r">>
SampleLines == {PlainLine, MarkerLine(MsgB), EmptyMarkerLine,
                DoubleMarkerLine, WhiteSpaceLine}
ParseFragments == {<<l>> : l \in ParseLines} \cup Str(MaxLines, SampleLines)
\* the files load_errors may be given: readable ones, ones whose reading
\* fails after some lines, and none
ParseFiles ==
    {FileOf(ls) : ls \in ParseFragments}
        \cup {UnreadableFile(ls) : ls \in Str(MaxLines, SampleLines)}
        \cup {MissingFile}

\* lines 175-178: filter_map keeps the Some results, collect appends them
CollectedFront(vec, opt) == opt \o vec
Collected(vec, opt) == vec \o opt

\* line 173: File::open(testfile).unwrap(), a missing file panics
OpenFile(w, F) ==
    /\ Running(w, "callback")
    /\ \E f \in F :
         LET c == cur[w]
         IN  /\ fragment' = [fragment EXCEPT ![c] = Some(f)]
             /\ IF ~f.exists
                THEN /\ panic' = [panic EXCEPT ![c] = "no file"]
                     /\ happened' = [happened EXCEPT ![c] = "no file"]
                     /\ Returns(c, TRUE)
                ELSE /\ pc' = [pc EXCEPT ![c] = "loading"]
                     /\ UNCHANGED <<phase, panic, happened, result, ret, stdout>>
    /\ UNCHANGED <<next_entry, discovery_vars, pool_vars>>
    /\ UNCHANGED <<args, diagnostics, expected, outcome, invoked>>
    /\ UNCHANGED aux_vars

\* lines 175-177: the reader yields its next item; parse_expected is
\* applied to a line, and line.unwrap() panics on an error
ReadLine(w) ==
    /\ Running(w, "loading")
    /\ LET c == cur[w]
           file == fragment[c][1]
       IN  /\ line_num[c] < Len(file.lines) \/ file.fails
           /\ IF line_num[c] < Len(file.lines)
              THEN LET r == parse_expected(file.lines[line_num[c] + 1], tag)
                   IN  /\ line_num' = [line_num EXCEPT ![c] = @ + 1]
                       /\ parsed' = [parsed EXCEPT ![c] = r]
                       /\ expected' = [expected EXCEPT ![c] = Collected(@, r)]
                       /\ UNCHANGED <<phase, pc, panic, happened, result, ret,
                                      stdout>>
              ELSE /\ panic' = [panic EXCEPT ![c] = "unreadable"]
                   /\ happened' = [happened EXCEPT ![c] = "unreadable"]
                   /\ Returns(c, TRUE)
                   /\ UNCHANGED <<line_num, parsed, expected>>
    /\ UNCHANGED <<next_entry, discovery_vars, pool_vars>>
    /\ UNCHANGED <<args, diagnostics, fragment, outcome, invoked>>
    /\ UNCHANGED <<calls, suite>>

\* lines 178 and 146: the reader is at the end of the file, the collected
\* vector becomes ExpectedErrors.messages
EndOfFile(w) ==
    /\ Running(w, "loading")
    /\ line_num[cur[w]] = Len(fragment[cur[w]][1].lines)
    /\ ~fragment[cur[w]][1].fails
    /\ pc' = [pc EXCEPT ![cur[w]] = "matching"]
    /\ UNCHANGED <<phase, next_entry, discovery_vars, pool_vars>>
    /\ UNCHANGED <<args, diagnostics, fragment, expected, panic, result, ret,
                   outcome, invoked, stdout, happened>>
    /\ UNCHANGED aux_vars

\* One case, taken by the first fold closure, whose front-end completed
\* without a diagnostic and whose callback is entered
InitParse ==
    /\ phase = "run"
    /\ dir_readable = TRUE
    /\ dir_entries = <<"file">>
    /\ next_entry = 2
    /\ temp_counter = 1
    /\ files_and_temp_dirs = <<<<FilePath(1), OutputDir(1, 1)>>>>
    /\ setup_failed = FALSE
    /\ todo = {}
    /\ cur = [Idle EXCEPT ![1] = 1]
    /\ acc = [w \in Workers |-> FoldIdentity]
    /\ live = Workers
    /\ count = None
    /\ pc = [Fresh("pending") EXCEPT ![1] = "callback"]
    /\ args = [Fresh(None) EXCEPT ![1] = Some(files_and_temp_dirs[1])]
    /\ diagnostics = Fresh(<<>>)
    /\ fragment = Fresh(None)
    /\ expected = Fresh(<<>>)
    /\ panic = Fresh("none")
    /\ result = Fresh("none")
    /\ ret = Fresh(None)
    /\ outcome = Fresh(None)
    /\ invoked = [Fresh(0) EXCEPT ![1] = 1]
    /\ stdout = Fresh(0)
    /\ happened = Fresh("nothing")
    /\ calls = Fresh(<<>>)
    /\ line_num = Fresh(0)
    /\ parsed = Fresh(None)
    /\ suite = "running"

NextParse ==
    \/ \E w \in Workers : OpenFile(w, ParseFiles)
    \/ \E w \in Workers : ReadLine(w)
    \/ \E w \in Workers : EndOfFile(w)
    \/ \E w \in Workers : AssertExhausted(w)
    \/ \E w \in Workers : FoldAdd(w)

SpecParse == InitParse /\ [][NextParse]_vars

\* ------------------------------------------------------- a run with a hang
\* lines 118-123: the front-end never returns; nothing in invoke_driver or
\* run_directory ends the call from outside
FrontEndHang(w) ==
    /\ Running(w, "frontend")
    /\ pc' = [pc EXCEPT ![cur[w]] = "hung"]
    /\ happened' = [happened EXCEPT ![cur[w]] = "hang"]
    /\ UNCHANGED <<phase, next_entry, discovery_vars, pool_vars>>
    /\ UNCHANGED <<args, diagnostics, fragment, expected, panic, result, ret,
                   outcome, invoked, stdout>>
    /\ UNCHANGED aux_vars

\* The fragments and diagnostics of the runs with a hang: scenario A
LiveFragments == {<<PlainLine>>}
LiveDiagLists == {<<>>}

\* The discovery of a directory of files only is over without a failure
InitLive ==
    /\ phase = "run"
    /\ dir_readable = TRUE
    /\ \E n \in 1..MaxEntries :
           /\ dir_entries = [i \in 1..n |-> "file"]
           /\ next_entry = n + 1
           /\ temp_counter = n
           /\ files_and_temp_dirs =
                  [k \in 1..n |-> <<FilePath(k), OutputDir(k, k)>>]
           /\ todo = 1..n
    /\ setup_failed = FALSE
    /\ cur = Idle
    /\ acc = [w \in Workers |-> FoldIdentity]
    /\ live = Workers
    /\ count = None
    /\ InitCases

\* what the fold closure of worker w does: it takes a case, and the
\* front-end, the callback and invoke_driver of that case run
WorkerStep(w) ==
    \/ \E c \in Cases : TakeCase(w, c)
    \/ FrontEndPanic(w)
    \/ FrontEndComplete(w, LiveDiagLists)
    \/ Callback(w, TextFilesOf(LiveFragments))
    \/ FoldAdd(w)

NextLive ==
    \/ \E w \in Workers : WorkerStep(w)
    \/ \E w \in Workers : FrontEndHang(w)
    \/ EndFold
    \/ \E w1 \in Workers, w2 \in Workers : ReduceStep(w1, w2)
    \/ Return

\* Every worker is scheduled again and again, and so is the thread that
\* reduces the partial sums and returns
Fairness ==
    /\ \A w \in Workers : WF_vars(WorkerStep(w))
    /\ WF_vars(EndFold)
    /\ WF_vars(\E w1 \in Workers, w2 \in Workers : ReduceStep(w1, w2))
    /\ WF_vars(Return)

SpecLive == InitLive /\ [][NextLive]_vars /\ Fairness

\* ------------------------------------------------------------ properties
Discovered == 1..NumCases

\* The number of times x occurs in the sequence s
Count(s, x) == Cardinality({i \in 1..Len(s) : s[i] = x})

\* The number of messages x among the diagnostics and their children
Produced(ds, x) ==
    Cardinality({i \in 1..Len(ds) : ds[i].message = x})
    + Cardinality({p \in (1..Len(ds)) \X (1..MaxChildren + 1) :
                      /\ p[2] <= Len(ds[p[1]].children)
                      /\ ds[p[1]].children[p[2]].message = x})

\* The callback of case c has run and found the fragment file
FragmentRead(c) ==
    /\ fragment[c] # None
    /\ fragment[c][1].exists
    /\ ~fragment[c][1].fails

\* The Expectation Set of case c as parsed, before any removal
Parsed(c) == CollectLines(fragment[c][1].lines)

\* The produced diagnostics and the parsed expectations are the same multiset
BagsEqual(c) ==
    \A x \in Msgs \cup {Parsed(c)[i] : i \in 1..Len(Parsed(c))} :
        Produced(diagnostics[c], x) = Count(Parsed(c), x)

HasChild(ds) == \E i \in 1..Len(ds) : ds[i].children # <<>>

\* C1: invoke_driver returns 0 exactly when the front-end ran to completion,
\* the expectations were read, and the produced messages (top-level and
\* child) and the expected messages match one for one with nothing left
\* over; in every other outcome it returns 1, and never anything else.
C1_ReturnsZeroIffAllMatched ==
    \A c \in Discovered :
        /\ pc[c] = "returned" =>
              /\ ret[c] \in {Some(0), Some(1)}
              /\ ret[c] = Some(0) <=> (FragmentRead(c) /\ BagsEqual(c))
        /\ pc[c] = "done" => outcome[c] \in {Some(0), Some(1)}

C1_Witness ==
    \E c \in Discovered :
        /\ pc[c] = "returned"
        /\ ret[c] = Some(0)
        /\ HasChild(diagnostics[c])

\* C2: a case whose front-end invocation or matching panics has outcome 1,
\* the panic never aborts the run once cases are being invoked, every case
\* has completed when the fold is over, and each case's outcome is the one
\* its own invocation determines, whatever happened to the other cases.
C2_CrashContained ==
    /\ (\E c \in Cases : invoked[c] > 0) => phase # "aborted"
    /\ phase \in {"reduce", "done"} => \A c \in Discovered : pc[c] = "done"
    /\ \A c \in Discovered :
          /\ pc[c] = "returned" /\ happened[c] = "crash" => ret[c] = Some(1)
          /\ pc[c] = "done" =>
                outcome[c] = Some(IF happened[c] = "matched" THEN 0 ELSE 1)

C2_Witness ==
    /\ phase = "done"
    /\ \E c, d \in Discovered :
          /\ happened[c] = "crash" /\ outcome[c] = Some(1)
          /\ happened[d] = "matched" /\ outcome[d] = Some(0)

\* C3: the value run_directory returns is the number of cases whose outcome
\* is 1, however the cases were spread over the fold accumulators and in
\* whatever order they ran and the partial sums were reduced.
C3_CountIsNumberOfFailures ==
    phase = "done" =>
        count = Some(Cardinality({c \in Discovered : outcome[c] = Some(1)}))

C3_Witness ==
    /\ phase = "done"
    /\ NumCases = MaxEntries
    /\ count = Some(MaxEntries - 1)

\* The diagnostics that present the messages q one by one
AsDiags(q) == [i \in 1..Len(q) |-> Diag(q[i], <<>>)]
\* q with the messages at i and j exchanged
Exchange(q, i, j) ==
    [k \in 1..Len(q) |-> IF k = i THEN q[j] ELSE IF k = j THEN q[i] ELSE q[k]]

\* C4: the verdict of check_messages on the produced messages is the verdict
\* it gives on the same messages with any two of them exchanged; every order
\* of a multiset is reached by such exchanges and every list of diagnostics
\* within the bounds is an input, so the verdict is the same in every order.
C4_VerdictOrderIndependent ==
    \A c \in Discovered :
        pc[c] = "returned" /\ FragmentRead(c) =>
            LET q == Flatten(diagnostics[c])
            IN  \A i, j \in 1..Len(q) :
                  i < j =>
                    (check_messages(Parsed(c), AsDiags(Exchange(q, i, j))).panic
                        = "none"
                     <=> result[c] = "Ok")

C4_Witness ==
    \E c \in Discovered :
        /\ pc[c] = "returned" /\ FragmentRead(c)
        /\ result[c] = "Ok"
        /\ \E i, j \in 1..Len(Parsed(c)) : Parsed(c)[i] # Parsed(c)[j]
        /\ Flatten(diagnostics[c]) # Parsed(c)

\* C5: check_messages succeeds if and only if every message is produced (as
\* a diagnostic's own message or a child's) exactly as many times as it is
\* expected.
C5_SucceedsIffBagsEqual ==
    \A c \in Discovered :
        pc[c] = "returned" /\ FragmentRead(c) =>
            (result[c] = "Ok" <=> BagsEqual(c))

C5_Witness ==
    \E c \in Discovered :
        /\ pc[c] = "returned" /\ FragmentRead(c)
        /\ result[c] = "Ok"
        /\ Parsed(c) = <<MsgA, MsgA>>
        /\ HasChild(diagnostics[c])

\* No line of the fragment of case c holds the marker
NoMarkerLine(c) ==
    \A i \in 1..Len(fragment[c][1].lines) :
        Occurrences(fragment[c][1].lines[i], tag) = {}

\* C6: a case whose fragment has no marker line succeeds (returns 0) if and
\* only if the front-end produced no diagnostic; with a diagnostic it fails
\* on the first one as unexpected.
C6_EmptyExpectations ==
    \A c \in Discovered :
        pc[c] = "returned" /\ FragmentRead(c) /\ NoMarkerLine(c) =>
            /\ ret[c] = Some(0) <=> diagnostics[c] = <<>>
            /\ diagnostics[c] # <<>> => panic[c] = "unexpected"

C6_Witness ==
    \E c \in Discovered :
        /\ pc[c] = "returned" /\ FragmentRead(c) /\ NoMarkerLine(c)
        /\ Len(diagnostics[c]) = 1
        /\ ret[c] = Some(1)

\* C7 as stated: a missing fragment file aborts the run, is not caught and
\* gives no outcome 1.
C7_MissingFileIsFatal ==
    \A c \in Discovered :
        happened[c] = "no file" =>
            /\ phase = "aborted"
            /\ result[c] # "Err"
            /\ ret[c] # Some(1) /\ outcome[c] # Some(1)

\* C7: a fragment file that is missing when load_errors opens it panics
\* inside the callback; catch_unwind catches the panic, the case prints its
\* "<path> failed" line and returns 1, the run goes on and the 1 is in the
\* count run_directory returns.
C7_MissingFileIsCaseFailure ==
    /\ \A c \in Discovered :
          happened[c] = "no file" =>
              /\ phase # "aborted"
              /\ stdout[c] = 1
              /\ pc[c] = "returned" => result[c] = "Err" /\ ret[c] = Some(1)
              /\ pc[c] = "done" => outcome[c] = Some(1)
    /\ phase = "done" =>
          count[1] >= Cardinality({c \in Discovered : happened[c] = "no file"})

C7_Witness ==
    /\ phase = "done"
    /\ \E c, d \in Discovered :
          /\ happened[c] = "no file" /\ outcome[c] = Some(1)
          /\ outcome[d] = Some(0)

\* C8: once the directory cannot be read or a temporary or output directory
\* cannot be created, the run is aborted: no case is or has been invoked and
\* no count is returned.
C8_SetupErrorAborts ==
    setup_failed =>
        /\ phase = "aborted"
        /\ todo = {}
        /\ \A c \in Cases : invoked[c] = 0 /\ pc[c] = "pending"
        /\ count = None

C8_Witness ==
    /\ setup_failed
    /\ NumCases >= 1
    /\ temp_counter > NumCases

\* C9: no two cases have the same output directory or the same fragment
\* path, and each invocation is given its own case's pair.
C9_CasesAreDistinct ==
    /\ \A c, d \in Discovered :
          c # d =>
              /\ files_and_temp_dirs[c][1] # files_and_temp_dirs[d][1]
              /\ files_and_temp_dirs[c][2] # files_and_temp_dirs[d][2]
    /\ \A c \in Discovered :
          args[c] # None =>
              /\ args[c][1] = files_and_temp_dirs[c]
              /\ \A d \in Discovered \ {c} :
                    args[c][1][2] # files_and_temp_dirs[d][2]

C9_Witness ==
    \E c, d \in Discovered :
        /\ c # d
        /\ pc[c] = "frontend" /\ pc[d] = "callback"
        /\ args[c] # None /\ args[d] # None

\* C10: every discovered case is invoked once, never twice, and none is left
\* out when the fold is over; "<fragment path> failed" is printed once for a
\* case that returned 1 and never for another.
C10_InvokedOncePrintedOnce ==
    /\ \A c \in Cases :
          /\ invoked[c] = IF c \in Discovered /\ pc[c] # "pending" THEN 1 ELSE 0
          /\ stdout[c] =
                IF \/ pc[c] = "returned" /\ ret[c] = Some(1)
                   \/ pc[c] = "done" /\ outcome[c] = Some(1)
                THEN 1 ELSE 0
    /\ phase \in {"reduce", "done"} =>
          \A c \in Discovered : invoked[c] = 1 /\ pc[c] = "done"

C10_Witness ==
    /\ phase = "done"
    /\ \E c, d \in Discovered :
          /\ outcome[c] = Some(1) /\ stdout[c] = 1
          /\ outcome[d] = Some(0) /\ stdout[d] = 0

\* C11: the test run_pass passes if and only if run_directory returned
\* exactly 0, that is, every discovered case has outcome 0; one failing case
\* makes it fail.
C11_SuitePassesIffCountZero ==
    /\ suite = "passed" =>
          /\ phase = "done" /\ count = Some(0)
          /\ \A c \in Discovered : outcome[c] = Some(0)
    /\ suite = "failed" /\ phase = "done" =>
          /\ count # Some(0)
          /\ \E c \in Discovered : outcome[c] = Some(1)

C11_Witness ==
    /\ suite = "failed"
    /\ count = Some(1)
    /\ NumCases >= 2

\* The call-by-call matching ends as check_messages computes it
MatchAgrees ==
    \A c \in Discovered :
        pc[c] = "returned" /\ FragmentRead(c) =>
            LET m == check_messages(CollectLines(fragment[c][1].lines),
                                    diagnostics[c])
            IN  /\ panic[c] = m.panic
                /\ expected[c] = m.messages

\* s without its i-th element
Without(s, i) == SubSeq(s, 1, i - 1) \o SubSeq(s, i + 1, Len(s))
LastCall(c) == calls[c][Len(calls[c])]

\* C12: a call of remove_message with a message the list holds removes the
\* first occurrence of it and nothing else, the other messages keep their
\* order; with a message the list does not hold it fails as "unexpected"
\* and the list is as it was.
C12_RemovesFirstOccurrence ==
    [][\A c \in Cases :
          calls'[c] # calls[c] =>
              LET call == calls'[c][Len(calls'[c])]
                  here == {i \in 1..Len(expected[c]) : expected[c][i] = call.msg}
              IN  /\ call.found <=> here # {}
                  /\ call.found =>
                        /\ \E i \in here :
                               /\ \A k \in here : i <= k
                               /\ expected'[c] = Without(expected[c], i)
                        /\ panic'[c] = panic[c]
                        /\ pc'[c] = pc[c]
                  /\ ~call.found =>
                        /\ expected'[c] = expected[c]
                        /\ panic'[c] = "unexpected"
                        /\ pc'[c] = "returned"]_vars

C12_Witness ==
    /\ Len(calls[1]) = 1
    /\ LastCall(1).found
    /\ LastCall(1).msg = MsgA
    /\ fragment[1] = Some(FileOf(<<MarkerLine(MsgA), MarkerLine(MsgB),
                                   MarkerLine(MsgA)>>))
    /\ expected[1] = <<MsgB, MsgA>>

\* The positions of the messages of a list of diagnostics, and their order:
\* a diagnostic's own message, then its children in order, then the next
\* diagnostic
Positions(ds) ==
    UNION {{<<i, j>> : j \in 0..Len(ds[i].children)} : i \in 1..Len(ds)}
Before(p, q) == p[1] < q[1] \/ (p[1] = q[1] /\ p[2] < q[2])
Matching(c) ==
    /\ pc[c] \in {"matching", "returned"}
    /\ FragmentRead(c)
AllFound(c) == \A n \in 1..Len(calls[c]) : calls[c][n].found
AllCalled(c) == Len(calls[c]) = Cardinality(Positions(diagnostics[c]))

\* C13: the check for expectations left over runs only after every
\* diagnostic and every child was matched; it fails as "missing" exactly when
\* the list is then not empty, and the callback succeeds exactly when it is
\* empty.
C13_ExhaustivenessAfterAllMatched ==
    \A c \in Cases :
        pc[c] = "returned" /\ Matching(c) =>
            /\ panic[c] \in {"missing", "none"} => AllCalled(c) /\ AllFound(c)
            /\ AllCalled(c) /\ AllFound(c) =>
                  /\ panic[c] = "missing" <=> expected[c] # <<>>
                  /\ panic[c] = "none" <=> expected[c] = <<>>
                  /\ result[c] = "Ok" <=> expected[c] = <<>>

C13_Witness ==
    /\ pc[1] = "returned"
    /\ panic[1] = "missing"
    /\ Len(calls[1]) >= 2
    /\ AllFound(1)
    /\ Len(expected[1]) = 1

\* C14: remove_message is called for a diagnostic's own message, then for
\* each of its children in order, before the next diagnostic; the first
\* call that fails is the last call.
C14_CallOrder ==
    \A c \in Cases :
        Matching(c) =>
            \A n \in 1..Len(calls[c]) :
                LET call == calls[c][n]
                    P == Positions(diagnostics[c])
                IN  /\ call.pos \in P
                    /\ Cardinality({p \in P : Before(p, call.pos)}) = n - 1
                    /\ call.msg = IF call.pos[2] = 0
                                  THEN diagnostics[c][call.pos[1]].message
                                  ELSE diagnostics[c][call.pos[1]]
                                           .children[call.pos[2]].message
                    /\ ~call.found =>
                          /\ n = Len(calls[c])
                          /\ pc[c] = "returned"
                          /\ panic[c] = "unexpected"

\* a diagnostic "a" with the children "b" and "a", matched in this order
\* against the expectations a, a, b, and a second diagnostic that fails
C14_Witness ==
    /\ Matching(1)
    /\ Parsed(1) = <<MsgA, MsgA, MsgB>>
    /\ Len(diagnostics[1]) = 2
    /\ diagnostics[1][1] = Diag(MsgA, <<[message |-> MsgB], [message |-> MsgA]>>)
    /\ Len(calls[1]) = 4
    /\ calls[1][1] = [pos |-> <<1, 0>>, msg |-> MsgA, found |-> TRUE]
    /\ calls[1][2] = [pos |-> <<1, 1>>, msg |-> MsgB, found |-> TRUE]
    /\ calls[1][3] = [pos |-> <<1, 2>>, msg |-> MsgA, found |-> TRUE]
    /\ calls[1][4].pos = <<2, 0>>
    /\ ~calls[1][4].found

\* s can be got from t by removing elements
RECURSIVE IsSubseq(_, _)
IsSubseq(s, t) ==
    IF s = <<>> THEN TRUE
    ELSE IF t = <<>> THEN FALSE
    ELSE IF Head(s) = Head(t) THEN IsSubseq(Tail(s), Tail(t))
    ELSE IsSubseq(s, Tail(t))

Successes(c) == Cardinality({n \in 1..Len(calls[c]) : calls[c][n].found})

\* C20: while a case is matched its expected list only loses elements: it is
\* a subsequence of the list parsed from the fragment, as long as that list
\* less the successful remove_message calls, and a step that changes it is a
\* step of the fold closure running that case, which changes the list of no
\* other case.
C20_OnlyRemoval ==
    /\ [](\A c \in Cases :
             Matching(c) =>
                 /\ IsSubseq(expected[c], Parsed(c))
                 /\ Len(expected[c]) = Len(Parsed(c)) - Successes(c))
    /\ [][\A c \in Cases :
             expected'[c] # expected[c] =>
                 /\ \E w \in Workers : cur[w] = c
                 /\ \A d \in Cases \ {c} :
                        /\ expected'[d] = expected[d]
                        /\ calls'[d] = calls[d]
                 /\ pc[c] = "matching" =>
                        /\ Len(expected'[c]) = Len(expected[c]) - 1
                        /\ IsSubseq(expected'[c], expected[c])]_vars

C20_Witness ==
    /\ Matching(1) /\ Matching(2)
    /\ Len(Parsed(1)) = 3
    /\ Successes(1) = 2
    /\ Len(expected[1]) = 1
    /\ Successes(2) = 1
    /\ expected[2] = <<>>

\* The line-by-line load_errors ends with what load_errors computes
LoadAgrees ==
    \A c \in Cases :
        pc[c] = "matching" /\ calls[c] = <<>> /\ FragmentRead(c) =>
            expected[c] = load_errors(fragment[c][1]).messages

\* The line parse_expected was last applied to, for a case that is loading
LineRead(c) == fragment[c][1].lines[line_num[c]]
HasMarker(line) ==
    \E i \in 1..Len(line) :
        i + 2 <= Len(line) /\ <<line[i], line[i + 1], line[i + 2]>> = tag
Blank(s) == \A k \in 1..Len(s) : s[k] \in White_Space

\* C15: parse_expected returns nothing for a line without the marker;
\* otherwise it returns the text between the end of the first marker and the
\* end of the line without the white space at its two ends, which may be
\* the empty string.
C15_ParseExpected ==
    \A c \in Cases :
        pc[c] = "loading" /\ line_num[c] > 0 =>
            LET line == LineRead(c)
            IN  /\ ~HasMarker(line) => parsed[c] = None
                /\ HasMarker(line) =>
                      \E i \in 1..(Len(line) - 2) :
                          LET rest == SubSeq(line, i + 3, Len(line))
                              n == Len(rest)
                          IN  /\ SubSeq(line, i, i + 2) = tag
                              /\ ~HasMarker(SubSeq(line, 1, i + 1))
                              /\ Len(parsed[c]) = 1
                              /\ \E lead \in 0..n, trail \in 0..n :
                                     LET m == SubSeq(rest, lead + 1, n - trail)
                                     IN  /\ lead + trail <= n
                                         /\ Blank(SubSeq(rest, 1, lead))
                                         /\ Blank(SubSeq(rest, n - trail + 1, n))
                                         /\ parsed[c][1] = m
                                         /\ m # <<>> =>
                                               /\ m[1] \notin White_Space
                                               /\ m[Len(m)] \notin White_Space

C15_Witness ==
    /\ pc[1] = "loading"
    /\ line_num[1] = 1
    /\ LineRead(1) = <<"/", "/", "~", "\t", "a", " ">>
    /\ parsed[1] = Some(<<"a">>)

\* The lines load_errors has taken so far that hold the marker, and the
\* marker occurrences in them
LinesTaken(c) == SubSeq(fragment[c][1].lines, 1, line_num[c])
MarkerBearing(lines) == {i \in 1..Len(lines) : HasMarker(lines[i])}
MarkerOccurrences(lines) ==
    UNION {{<<i, j>> : j \in Occurrences(lines[i], tag)} : i \in 1..Len(lines)}
Loading(c) ==
    /\ pc[c] \in {"loading", "matching", "returned"}
    /\ fragment[c] # None
    /\ fragment[c][1].exists

\* C16 as stated: the expected messages are, in file order, one per marker
\* occurrence of the fragment.
C16_OnePerMarkerOccurrence ==
    \A c \in Cases :
        Loading(c) =>
            Len(expected[c]) = Cardinality(MarkerOccurrences(LinesTaken(c)))

\* C16: the expected messages are the results of parse_expected that are
\* not None, in file order: one per line that holds the marker, however
\* often it holds it; a line without the marker adds nothing, and the k-th
\* message is the one parsed from the k-th line that holds the marker.
C16_OnePerMarkerLine ==
    \A c \in Cases :
        Loading(c) =>
            LET lines == LinesTaken(c)
                ML == MarkerBearing(lines)
            IN  /\ Len(expected[c]) = Cardinality(ML)
                /\ \A i \in ML :
                       expected[c][1 + Cardinality({j \in ML : j < i})]
                           = parse_expected(lines[i], tag)[1]

C16_Witness ==
    /\ pc[1] = "matching"
    /\ fragment[1] = Some(FileOf(<<DoubleMarkerLine, MarkerLine(MsgB)>>))
    /\ Cardinality(MarkerOccurrences(LinesTaken(1))) = 3
    /\ expected[1] = <<MsgA \o <<" ">> \o MarkerLine(MsgB), MsgB>>

\* A case is in progress from the call of invoke_driver to the addition of
\* its return value
InProgress(c) == pc[c] \in {"frontend", "callback", "returned"}
Holders(c) == {w \in Workers : cur[w] = c}

\* C17: a worker runs one case at a time and runs it to its end: a case in
\* progress is held by exactly one worker, a worker holds only a case in
\* progress, it takes a case only when it holds none, and it lets go of a
\* case only when the case has returned and its value was added.
C17_OneCasePerWorker ==
    /\ [](/\ \A c \in Cases : InProgress(c) => Cardinality(Holders(c)) = 1
          /\ \A w \in Workers : cur[w] # NoCase =>
                 /\ InProgress(cur[w])
                 /\ cur[w] \notin todo
          /\ \A w1 \in Workers, w2 \in Workers :
                 w1 # w2 /\ cur[w1] # NoCase => cur[w1] # cur[w2])
    /\ [][\A w \in Workers :
             cur'[w] # cur[w] =>
                 \/ /\ cur[w] = NoCase
                    /\ pc[cur'[w]] = "pending"
                    /\ pc'[cur'[w]] = "frontend"
                 \/ /\ cur'[w] = NoCase
                    /\ pc[cur[w]] = "returned"
                    /\ pc'[cur[w]] = "done"]_vars

C17_Witness ==
    /\ cur[1] # NoCase
    /\ cur[2] # NoCase
    /\ pc[cur[1]] = "callback"
    /\ pc[cur[2]] = "frontend"
    /\ \E c \in Cases : pc[c] = "done"
    /\ todo = {}

\* The entries the discovery loop has dealt with, and the files among them
Processed ==
    IF next_entry = 0 THEN {} ELSE 1..(next_entry - 1)
FileEntries == {i \in Processed : dir_entries[i] = "file"}
\* the entry the k-th case comes from: the k-th file entry
EntryOf(k) ==
    CHOOSE i \in FileEntries : Cardinality({j \in FileEntries : j < i}) = k - 1

\* C19: the cases are, in directory order, the file entries the loop has
\* dealt with, one case each and none for a subdirectory; the output
\* directory of a case is named after its file and lies in a temporary
\* directory that was created after those of the earlier cases and is the
\* root of no other case.
C19_OneCasePerFile ==
    /\ NumCases = Cardinality(FileEntries)
    /\ \A k \in Discovered :
          LET pair == files_and_temp_dirs[k]
          IN  /\ pair[1] = <<"tests/run-pass", EntryOf(k)>>
              /\ pair[2][2] = EntryOf(k)
              /\ pair[2][1] \in 1..temp_counter
              /\ \A j \in Discovered :
                     /\ j < k => files_and_temp_dirs[j][2][1] < pair[2][1]
                     /\ j # k => files_and_temp_dirs[j][2][1] # pair[2][1]
    /\ ~setup_failed => temp_counter = NumCases

C19_Witness ==
    /\ phase = "run"
    /\ dir_entries = <<"file", "dir", "file">>
    /\ NumCases = 2
    /\ files_and_temp_dirs[2] = <<<<"tests/run-pass", 3>>, <<2, 3>>>>

SomeHung == \E c \in Cases : pc[c] = "hung"
Finished ==
    /\ phase = "done"
    /\ count # None
    /\ \A c \in Discovered : outcome[c] # None

\* C18: when no front-end invocation hangs, the run finishes: every case
\* has an outcome and run_directory has returned a count; once an invocation
\* hangs, the run stays in its fold for ever and returns no count.
C18_FinishesUnlessHung ==
    /\ ([]~SomeHung) => <>Finished
    /\ [](SomeHung => [](SomeHung /\ phase = "run" /\ count = None))

\* one invocation hangs and every other case of the run completes
C18_Witness ==
    /\ NumCases = MaxEntries
    /\ pc[1] = "hung"
    /\ \A c \in Discovered \ {1} : pc[c] = "done" /\ outcome[c] # None
    /\ count = None

====
